---- MODULE Spec2Model ----
(***************************************************************************)
(* Model of create_package.py: the pipeline that turns a tree of Unity     *)
(* assets with `.meta` sidecars into a .unitypackage (tar.gz) archive.     *)
(*                                                                         *)
(* Text and paths are sequences of one-character strings, so that the     *)
(* regular-expression search, the suffix test and the separator           *)
(* replacement are computed character by character as the code does.      *)
(* Python's None and the empty string are both modelled by the empty      *)
(* sequence: the code only ever tests them for truthiness (`if not guid`, *)
(* `and asset['asset']`).                                                  *)
(***************************************************************************)
EXTENDS Integers, Sequences, FiniteSets, TLC

VARIABLES
    os_sep,      \* os.sep of the platform the script runs on
    fs,          \* the source file system: path string -> entry
    pc,          \* position of create_unitypackage
    assets,      \* the list returned by get_all_assets
    idx,         \* index of the next element of `for asset in assets`
    temp_exists, \* whether temp_dir exists on disk
    staging,     \* contents of temp_dir: directory name -> (file name -> content)
    output,      \* the file at output_path: [exists, members]
    raised,      \* an exception is propagating out of the try block
    guid_result  \* value returned by a stand-alone call of extract_guid

vars == <<os_sep, fs, pc, assets, idx, temp_exists, staging, output, raised, guid_result>>

(***************************************************************************)
(* Bounds                                                                  *)
(***************************************************************************)
\* Number of chunks a generated sidecar text is made of.
MaxChunks == 4

(***************************************************************************)
(* Text helpers                                                            *)
(***************************************************************************)
None == <<>>

META_SUFFIX == <<".", "m", "e", "t", "a">>

GuidLiteral == <<"g", "u", "i", "d", ":">>

\* the character class [a-f0-9]
HexChars == {"a", "b", "c", "d", "e", "f",
             "0", "1", "2", "3", "4", "5", "6", "7", "8", "9"}

\* the character class \s
Whitespace == {" ", "\t", "\n", "\r", "\f"}

\* str.endswith
EndsWith(s, suf) ==
    /\ Len(s) >= Len(suf)
    /\ SubSeq(s, Len(s) - Len(suf) + 1, Len(s)) = suf

\* faulty variant: the separator replacement left out
replace_nothing(s) == s

\* str.replace("\\", "/")
RECURSIVE replace_backslash(_)
replace_backslash(s) ==
    IF s = <<>> THEN <<>>
    ELSE <<IF Head(s) = "\\" THEN "/" ELSE Head(s)>> \o replace_backslash(Tail(s))

\* os.path.join(root, name) for a root that does not end in a separator
Join(sep, root, name) == root \o <<sep>> \o name

path_join(root, name) == Join(os_sep, root, name)

(***************************************************************************)
(* extract_guid: re.search(r'guid:\s*([a-f0-9]+)', content)                *)
(***************************************************************************)
\* first position >= p of s whose character is not in class C (greedy run)
RECURSIVE SpanEnd(_, _, _)
SpanEnd(s, p, C) ==
    IF p <= Len(s) /\ s[p] \in C THEN SpanEnd(s, p + 1, C) ELSE p

\* faulty variant: the token class without its `+`
MatchAtOneChar(s, p) ==
    IF p + 4 <= Len(s) /\ SubSeq(s, p, p + 4) = GuidLiteral
    THEN LET w == SpanEnd(s, p + 5, Whitespace)
         IN  IF w <= Len(s) /\ s[w] \in HexChars THEN SubSeq(s, w, w) ELSE None
    ELSE None

\* The pattern anchored at position p; group(1) or None.  Giving back
\* whitespace to \s* cannot help [a-f0-9]+ (the next character would be
\* whitespace), so the greedy attempt decides the match.
MatchAt(s, p) ==
    IF p + 4 <= Len(s) /\ SubSeq(s, p, p + 4) = GuidLiteral
    THEN LET w == SpanEnd(s, p + 5, Whitespace)
             h == SpanEnd(s, w, HexChars)
         IN  IF h > w THEN SubSeq(s, w, h - 1) ELSE None
    ELSE None

\* re.search scans start positions left to right
RECURSIVE re_search(_, _)
re_search(s, p) ==
    IF p > Len(s) THEN None
    ELSE LET m == MatchAt(s, p)
         IN  IF m # None THEN m ELSE re_search(s, p + 1)

\* open() or read() raises (missing, a directory, permissions, encoding)
ReadFails(path) ==
    \/ path \notin DOMAIN fs
    \/ fs[path].kind # "file"
    \/ ~fs[path].readable

extract_guid(meta_file_path) ==
    IF ReadFails(meta_file_path) THEN None
    ELSE re_search(fs[meta_file_path].data, 1)

(***************************************************************************)
(* The source tree                                                         *)
(***************************************************************************)
ASSETS_FOLDER == <<"A", "/", "B">>

Dir == [kind |-> "dir", readable |-> TRUE, data |-> <<>>]

File(text) == [kind |-> "file", readable |-> TRUE, data |-> text]

\* a file whose open() or read() raises
UnreadableFile == [kind |-> "file", readable |-> FALSE, data |-> <<>>]

path_exists(path) == path \in DOMAIN fs

\* characters that separate path components on the platform
Separators == IF os_sep = "\\" THEN {"/", "\\"} ELSE {"/"}

\* names of the entries directly inside directory `root`
listdir(root) ==
    LET n == Len(root) + 1
        inside == {p \in DOMAIN fs :
                      /\ Len(p) > n
                      /\ SubSeq(p, 1, n) = root \o <<os_sep>>
                      /\ \A j \in (n + 1)..Len(p) : p[j] \notin Separators}
    IN  {SubSeq(p, n + 1, Len(p)) : p \in inside}

\* some enumeration of a finite set (the order os.scandir happens to give)
RECURSIVE SetToSeq(_)
SetToSeq(S) ==
    IF S = {} THEN <<>>
    ELSE LET x == CHOOSE y \in S : TRUE
         IN  <<x>> \o SetToSeq(S \ {x})

(***************************************************************************)
(* get_all_assets                                                          *)
(***************************************************************************)
FolderRecord(path, meta) ==
    [path |-> replace_backslash(path), meta |-> meta,
     is_folder |-> TRUE, asset |-> None]

FileRecord(file_path, meta_path) ==
    [path |-> replace_backslash(file_path), meta |-> meta_path,
     is_folder |-> FALSE, asset |-> file_path]

\* the inner loop `for file in files`
RECURSIVE FileAssets(_, _)
FileAssets(root, files) ==
    IF files = <<>> THEN <<>>
    ELSE LET file == Head(files)
             file_path == path_join(root, file)
             meta_path == file_path \o META_SUFFIX
             rest == FileAssets(root, Tail(files))
         IN  IF EndsWith(file, META_SUFFIX) THEN rest
             ELSE IF path_exists(meta_path)
                  THEN <<FileRecord(file_path, meta_path)>> \o rest
                  ELSE rest

\* the body of `for root, dirs, files in os.walk(base_path)`, top-down
RECURSIVE walk(_)
RECURSIVE walk_each(_, _)
walk(root) ==
    LET names == listdir(root)
        dirs == {d \in names : fs[path_join(root, d)].kind = "dir"}
        files == {f \in names : fs[path_join(root, f)].kind = "file"}
        dir_meta == root \o META_SUFFIX
    IN  (IF path_exists(dir_meta) THEN <<FolderRecord(root, dir_meta)>> ELSE <<>>)
        \o FileAssets(root, SetToSeq(files))
        \o walk_each(root, SetToSeq(dirs))

walk_each(root, dirs) ==
    IF dirs = <<>> THEN <<>>
    ELSE walk(path_join(root, Head(dirs))) \o walk_each(root, Tail(dirs))

\* os.walk yields nothing when the top is not a directory
os_walk(base_path) ==
    IF path_exists(base_path) /\ fs[base_path].kind = "dir"
    THEN walk(base_path) ELSE <<>>

\* faulty variant: the root record appended instead of inserted at the front
get_all_assets_append(base_path) ==
    LET walked == os_walk(base_path)
        root_meta == base_path \o META_SUFFIX
    IN  IF path_exists(root_meta)
        THEN walked \o <<FolderRecord(base_path, root_meta)>>
        ELSE walked

get_all_assets(base_path) ==
    LET walked == os_walk(base_path)
        root_meta == base_path \o META_SUFFIX
    IN  IF path_exists(root_meta)
        THEN <<FolderRecord(base_path, root_meta)>> \o walked
        ELSE walked

(***************************************************************************)
(* The staging directory                                                   *)
(***************************************************************************)
\* a directory with nothing in it
EmptyDir == <<>>

\* faulty variant: the skip of assets without identifier left out
never_no_guid(guid) == FALSE

\* `if not guid`
no_guid(guid) == guid = None

\* os.makedirs(guid_folder, exist_ok=True)
makedirs(st, guid) ==
    IF guid \in DOMAIN st THEN st ELSE st @@ (guid :> EmptyDir)

\* creating or overwriting file `name` of directory st[guid]
write_file(st, guid, name, content) ==
    [st EXCEPT ![guid] = (name :> content) @@ @]

\* `if not asset['is_folder'] and asset['asset']`
copies_asset(asset) == ~asset.is_folder /\ asset.asset # None

\* The staging directory after the first `steps` file-system operations of
\* the loop body for one asset: makedirs, pathname, asset.meta, asset.
stage_steps(st, asset, guid, steps) ==
    LET s1 == makedirs(st, guid)
        s2 == write_file(s1, guid, "pathname", asset.path)
        s3 == write_file(s2, guid, "asset.meta", fs[asset.meta].data)
        s4 == IF copies_asset(asset)
              THEN write_file(s3, guid, "asset", fs[asset.asset].data)
              ELSE s3
    IN  CASE steps = 0 -> st
          [] steps = 1 -> s1
          [] steps = 2 -> s2
          [] steps = 3 -> s3
          [] OTHER     -> s4

\* number of file-system operations the loop body performs for an asset
num_steps(asset) == IF copies_asset(asset) THEN 4 ELSE 3

\* faulty variant: tar.add(..., recursive=False)
tar_members_flat(st, items) == [item \in items |-> EmptyDir]

\* tar.add(item_path, arcname=item) for every item of os.listdir(temp_dir)
tar_members(st, items) == [item \in items |-> st[item]]

NoOutput == [exists |-> FALSE, members |-> <<>>]

(***************************************************************************)
(* create_unitypackage                                                     *)
(***************************************************************************)
\* assets = get_all_assets(assets_folder)
GetAssets ==
    /\ pc = "start"
    /\ assets' = get_all_assets(ASSETS_FOLDER)
    /\ pc' = "mkdtemp"
    /\ UNCHANGED <<os_sep, fs, idx, temp_exists, staging, output, raised, guid_result>>

\* temp_dir = tempfile.mkdtemp()
Mkdtemp ==
    /\ pc = "mkdtemp"
    /\ temp_exists' = TRUE
    /\ staging' = EmptyDir
    /\ idx' = 1
    /\ pc' = IF Len(assets) = 0 THEN "archive" ELSE "staging"
    /\ UNCHANGED <<os_sep, fs, assets, output, raised, guid_result>>

\* mkdtemp raises: no directory is created and the try block is not entered
MkdtempFails ==
    /\ pc = "mkdtemp"
    /\ pc' = "failed"
    /\ raised' = TRUE
    /\ UNCHANGED <<os_sep, fs, assets, idx, temp_exists, staging, output, guid_result>>

\* faulty variant: an asset without identifier raises instead of being skipped
StageAssetAborting ==
    /\ pc = "staging"
    /\ idx <= Len(assets)
    /\ LET asset == assets[idx]
           guid == extract_guid(asset.meta)
       IN  IF no_guid(guid)
           THEN /\ raised' = TRUE
                /\ pc' = "finally"
                /\ UNCHANGED <<idx, staging>>
           ELSE /\ staging' = stage_steps(staging, asset, guid, num_steps(asset))
                /\ idx' = idx + 1
                /\ pc' = IF idx = Len(assets) THEN "archive" ELSE "staging"
                /\ UNCHANGED raised
    /\ UNCHANGED <<os_sep, fs, assets, temp_exists, output, guid_result>>

\* one iteration of `for asset in assets` that completes
StageAsset ==
    /\ pc = "staging"
    /\ idx <= Len(assets)
    /\ LET asset == assets[idx]
           guid == extract_guid(asset.meta)
       IN  staging' = IF no_guid(guid) THEN staging
                      ELSE stage_steps(staging, asset, guid, num_steps(asset))
    /\ idx' = idx + 1
    /\ pc' = IF idx = Len(assets) THEN "archive" ELSE "staging"
    /\ UNCHANGED <<os_sep, fs, assets, temp_exists, output, raised, guid_result>>

\* one iteration in which a file-system operation raises (disk full, ...)
StageAssetFails ==
    /\ pc = "staging"
    /\ idx <= Len(assets)
    /\ LET asset == assets[idx]
           guid == extract_guid(asset.meta)
       IN  /\ ~no_guid(guid)
           /\ \E done \in 0..(num_steps(asset) - 1) :
                 staging' = stage_steps(staging, asset, guid, done)
    /\ raised' = TRUE
    /\ pc' = "finally"
    /\ UNCHANGED <<os_sep, fs, assets, idx, temp_exists, output, guid_result>>

\* with tarfile.open(output_path, "w:gz") as tar: tar.add(...) for each item
CreateArchive ==
    /\ pc = "archive"
    /\ output' = [exists |-> TRUE, members |-> tar_members(staging, DOMAIN staging)]
    /\ pc' = "summary"
    /\ UNCHANGED <<os_sep, fs, assets, idx, temp_exists, staging, raised, guid_result>>

\* tarfile.open raises, or tar.add raises after some of the items
CreateArchiveFails ==
    /\ pc = "archive"
    /\ \/ output' = output
       \/ \E items \in SUBSET DOMAIN staging :
             /\ items # DOMAIN staging
             /\ output' = [exists |-> TRUE, members |-> tar_members(staging, items)]
    /\ raised' = TRUE
    /\ pc' = "finally"
    /\ UNCHANGED <<os_sep, fs, assets, idx, temp_exists, staging, guid_result>>

\* the three summary prints
Summary ==
    /\ pc = "summary"
    /\ pc' = "finally"
    /\ UNCHANGED <<os_sep, fs, assets, idx, temp_exists, staging, output, raised, guid_result>>

\* os.path.getsize or print raises
SummaryFails ==
    /\ pc = "summary"
    /\ raised' = TRUE
    /\ pc' = "finally"
    /\ UNCHANGED <<os_sep, fs, assets, idx, temp_exists, staging, output, guid_result>>

\* faulty variant: the cleanup after the try block instead of in `finally`
FinallyAfterTry ==
    /\ pc = "finally"
    /\ temp_exists' = IF raised THEN temp_exists ELSE FALSE
    /\ staging' = IF raised THEN staging ELSE EmptyDir
    /\ pc' = IF raised THEN "failed" ELSE "done"
    /\ UNCHANGED <<os_sep, fs, assets, idx, output, raised, guid_result>>

\* finally: shutil.rmtree(temp_dir); the exception, if any, then propagates
Finally ==
    /\ pc = "finally"
    /\ temp_exists' = FALSE
    /\ staging' = EmptyDir
    /\ pc' = IF raised THEN "failed" ELSE "done"
    /\ UNCHANGED <<os_sep, fs, assets, idx, output, raised, guid_result>>

(***************************************************************************)
(* Source trees the pipeline is run on                                     *)
(***************************************************************************)
TextA == <<"g", "u", "i", "d", ":", " ", "a", "1">>

TextA2 == <<"g", "u", "i", "d", ":", "a", "1", "\n">>

TextB == <<"v", ":", " ", "2", "\n", "g", "u", "i", "d", ":", " ", "b", "2">>

TextNoGuid == <<"i", "d", ":", " ", "a", "1">>

\* what a sidecar can be: missing, unreadable, or one of the texts
Missing == [kind |-> "none", readable |-> FALSE, data |-> <<>>]

Sidecars == {Missing, UnreadableFile} \cup {File(t) : t \in {TextA, TextA2, TextB, TextNoGuid}}

\* a sidecar whose asset does not exist carries no information for the run
OrphanSidecars == {Missing, File(TextB)}

\* the function with the given set of <<path, entry>> pairs, minus the missing
MakeFs(pairs) ==
    LET present == {pr \in pairs : pr[2].kind # "none"}
    IN  [p \in {pr[1] : pr \in present} |->
            (CHOOSE pr \in present : pr[1] = p)[2]]

\* A/B with an optional file f, an optional folder D holding an optional
\* file h, their sidecars, the sidecar of A/B and a sidecar of a sidecar
Tree(sep, root_meta, f, f_meta, f_meta_meta, d, d_meta, h, h_meta) ==
    LET F == Join(sep, ASSETS_FOLDER, <<"f">>)
        D == Join(sep, ASSETS_FOLDER, <<"D">>)
        H == Join(sep, D, <<"h">>)
    IN  MakeFs({<<ASSETS_FOLDER, Dir>>,
                <<ASSETS_FOLDER \o META_SUFFIX, root_meta>>,
                <<F, f>>,
                <<F \o META_SUFFIX, f_meta>>,
                <<F \o META_SUFFIX \o META_SUFFIX, f_meta_meta>>,
                <<D, d>>,
                <<D \o META_SUFFIX, d_meta>>,
                <<H, h>>,
                <<H \o META_SUFFIX, h_meta>>})

Init ==
    /\ os_sep \in {"/", "\\"}
    /\ \E root_meta \in Sidecars,
          f \in {Missing, File(<<"x">>)},
          d \in {Missing, Dir} :
          \E f_meta \in IF f = Missing THEN OrphanSidecars ELSE Sidecars,
             d_meta \in IF d = Missing THEN OrphanSidecars ELSE Sidecars,
             h \in IF d = Missing THEN {Missing} ELSE {Missing, File(<<"y">>)} :
             \E f_meta_meta \in IF f_meta = Missing THEN {Missing}
                                ELSE {Missing, File(TextB)},
                h_meta \in IF d = Missing THEN {Missing}
                           ELSE IF h = Missing THEN OrphanSidecars ELSE Sidecars :
                fs = Tree(os_sep, root_meta, f, f_meta, f_meta_meta, d, d_meta, h, h_meta)
    /\ pc = "start"
    /\ assets = <<>>
    /\ idx = 1
    /\ temp_exists = FALSE
    /\ staging = EmptyDir
    /\ output = NoOutput
    /\ raised = FALSE
    /\ guid_result = None

Next ==
    \/ GetAssets
    \/ Mkdtemp
    \/ MkdtempFails
    \/ StageAsset
    \/ StageAssetFails
    \/ CreateArchive
    \/ CreateArchiveFails
    \/ Summary
    \/ SummaryFails
    \/ Finally

Spec == Init /\ [][Next]_vars

(***************************************************************************)
(* extract_guid on its own, over generated sidecar texts                   *)
(***************************************************************************)
META_PATH == <<"m", ".", "m", "e", "t", "a">>

\* pieces the generated texts are concatenated from
Chunks == {GuidLiteral, <<" ">>, <<"\n">>, <<"a">>, <<"7">>, <<"F">>}

RECURSIVE Flatten(_)
Flatten(cs) == IF cs = <<>> THEN <<>> ELSE Head(cs) \o Flatten(Tail(cs))

Texts == {Flatten(cs) : cs \in UNION {[1..n -> Chunks] : n \in 0..MaxChunks}}

InitGuid ==
    /\ os_sep = "/"
    /\ \E entry \in {UnreadableFile} \cup {File(t) : t \in Texts} :
          fs = MakeFs({<<META_PATH, entry>>})
    /\ pc = "extract"
    /\ assets = <<>>
    /\ idx = 1
    /\ temp_exists = FALSE
    /\ staging = EmptyDir
    /\ output = NoOutput
    /\ raised = FALSE
    /\ guid_result = None

\* guid = extract_guid(meta_file_path)
ExtractGuidCall ==
    /\ pc = "extract"
    /\ guid_result' = extract_guid(META_PATH)
    /\ pc' = "extracted"
    /\ UNCHANGED <<os_sep, fs, assets, idx, temp_exists, staging, output, raised>>

NextGuid == ExtractGuidCall

SpecGuid == InitGuid /\ [][NextGuid]_vars

(***************************************************************************)
(* Properties                                                              *)
(***************************************************************************)
\* the identifier the sidecar of the k-th enumerated asset resolves to
GuidOf(k) == extract_guid(assets[k].meta)

\* the enumerated assets processed so far by the staging loop
Processed == 1..(idx - 1)

InLoop == pc \in {"staging", "archive"}

\* C1: when the run has terminated, in success or after a fatal failure
\* raised during staging, archiving or the summary, the temporary staging
\* directory no longer exists.
CleanupInvariant ==
    pc \in {"done", "failed"} => ~temp_exists

\* a run that created its staging directory, staged an entry, failed and ended
CleanupWitness ==
    /\ pc = "failed"
    /\ idx > 1
    /\ \E k \in 1..Len(assets) : GuidOf(k) # None

\* C2: during the staging loop and when archiving starts, the directories
\* of the staging directory are exactly the identifiers the processed
\* assets resolved to.
StagingEntryInvariant ==
    InLoop => DOMAIN staging = {GuidOf(k) : k \in Processed} \ {None}

\* archiving starts with two entries and one asset skipped
StagingEntryWitness ==
    /\ pc = "archive"
    /\ Cardinality(DOMAIN staging) = 2
    /\ \E k \in Processed : GuidOf(k) = None

\* the un-normalized path of an enumerated asset: its sidecar minus `.meta`
RawPath(asset) == SubSeq(asset.meta, 1, Len(asset.meta) - Len(META_SUFFIX))

\* the enumerated assets that resolve to identifier g
AssetsOf(g) == {k \in 1..Len(assets) : GuidOf(k) = g}

\* the last processed asset that resolved to identifier g
LastOf(g) == CHOOSE k \in AssetsOf(g) \cap Processed :
                \A j \in AssetsOf(g) \cap Processed : j <= k

\* p is raw with every backslash turned into a forward slash
IsNormalized(p, raw) ==
    /\ Len(p) = Len(raw)
    /\ \A j \in 1..Len(raw) : p[j] = (IF raw[j] = "\\" THEN "/" ELSE raw[j])

\* C3 (as stated): when staging completes, the entry of every directory
\* asset has no `asset` file and the entry of every file asset has an
\* `asset` file equal to the source file, identifier collisions included.
AssetFileOnlyForFiles ==
    pc = "archive" =>
        \A k \in 1..Len(assets) :
            GuidOf(k) # None =>
                LET entry == staging[GuidOf(k)]
                IN  IF assets[k].is_folder
                    THEN "asset" \notin DOMAIN entry
                    ELSE /\ "asset" \in DOMAIN entry
                         /\ entry["asset"] = fs[assets[k].asset].data

\* C4 (as stated): when staging completes, for every asset that resolved
\* to an identifier, `pathname` in the directory of that identifier holds
\* the asset's normalized path.
PathnameOfEveryAsset ==
    pc = "archive" =>
        \A k \in 1..Len(assets) :
            GuidOf(k) # None =>
                IsNormalized(staging[GuidOf(k)]["pathname"], RawPath(assets[k]))

\* C4 (amended): when staging completes, `pathname` in each identifier
\* directory holds the forward-slash-normalized path of the last asset
\* processed for that identifier.
PathnameOfLastAsset ==
    pc = "archive" =>
        \A g \in DOMAIN staging :
            IsNormalized(staging[g]["pathname"], RawPath(assets[LastOf(g)]))

\* two assets with different paths share an identifier, on a platform
\* whose separator is the backslash
PathnameWitness ==
    /\ pc = "archive"
    /\ os_sep = "\\"
    /\ \E g \in DOMAIN staging :
          /\ \E k \in AssetsOf(g) : RawPath(assets[k]) # RawPath(assets[LastOf(g)])
          /\ \E j \in 1..Len(RawPath(assets[LastOf(g)])) :
                RawPath(assets[LastOf(g)])[j] = "\\"

\* C5: an iteration whose asset has no identifier (sidecar unreadable or
\* without the pattern) leaves the staging directory and the output alone,
\* raises nothing and moves on to the next asset or to archive creation;
\* the archive then made holds the entries of the other assets.
SkipNeverAborts ==
    /\ [][(pc = "staging" /\ idx <= Len(assets) /\ GuidOf(idx) = None) =>
            /\ staging' = staging
            /\ output' = output
            /\ raised' = raised
            /\ idx' = idx + 1
            /\ pc' = IF idx = Len(assets) THEN "archive" ELSE "staging"]_vars
    /\ [](pc = "summary" =>
            DOMAIN output.members = {GuidOf(k) : k \in 1..Len(assets)} \ {None})

\* a finished run with an unreadable sidecar, a sidecar without the
\* pattern, and a later asset that is in the archive
SkipWitness ==
    /\ pc = "done"
    /\ \E k1, k2, k3 \in 1..Len(assets) :
          /\ ReadFails(assets[k1].meta)
          /\ ~ReadFails(assets[k2].meta) /\ GuidOf(k2) = None
          /\ k3 > k1 /\ k3 > k2
          /\ GuidOf(k3) \in DOMAIN output.members

\* directories and files of the walked tree
InTree ==
    {p \in DOMAIN fs :
        \/ p = ASSETS_FOLDER
        \/ /\ Len(p) > Len(ASSETS_FOLDER) + 1
           /\ SubSeq(p, 1, Len(ASSETS_FOLDER) + 1) = ASSETS_FOLDER \o <<os_sep>>}

\* number of records of the sequence that stand for path p
Occurrences(p) == Cardinality({k \in 1..Len(assets) : RawPath(assets[k]) = p})

Enumerated == pc \in {"mkdtemp", "staging", "archive", "summary", "finally", "done", "failed"}

\* C6 (as stated): every directory and every non-metadata file of the
\* walked tree that has a sidecar is in the sequence exactly once (the
\* root, through its synthetic entry, included); everything else never.
EnumeratedExactlyOnce ==
    Enumerated =>
        \A p \in InTree :
            Occurrences(p) =
                IF /\ fs[p].kind = "dir" \/ ~EndsWith(p, META_SUFFIX)
                   /\ path_exists(p \o META_SUFFIX)
                THEN 1 ELSE 0

\* C7: once the archive is written, its top-level members are exactly the
\* directories of the staging directory, each with its files.
ArchiveMembers ==
    (pc = "summary" \/ (pc = "finally" /\ ~raised)) =>
        /\ output.exists
        /\ DOMAIN output.members = DOMAIN staging
        /\ \A item \in DOMAIN staging : output.members[item] = staging[item]

\* an archive of two entries, one of them with an `asset` file
ArchiveWitness ==
    /\ pc = "finally"
    /\ ~raised
    /\ Cardinality(DOMAIN output.members) = 2
    /\ \E item \in DOMAIN output.members : "asset" \in DOMAIN output.members[item]
    /\ \E item \in DOMAIN output.members : "asset" \notin DOMAIN output.members[item]

\* the tokens of the matches of "guid:", at least min_ws whitespace
\* characters, a maximal run of lowercase-hex characters, anchored at p
TokensAt(s, p, min_ws) ==
    IF p + 4 <= Len(s) /\ SubSeq(s, p, p + 4) = GuidLiteral
    THEN {SubSeq(s, a, b) : <<a, b>> \in
            {ab \in ((p + 5 + min_ws)..Len(s)) \X ((p + 5 + min_ws)..Len(s)) :
                /\ ab[1] <= ab[2]
                /\ \A j \in (p + 5)..(ab[1] - 1) : s[j] \in Whitespace
                /\ \A j \in ab[1]..ab[2] : s[j] \in HexChars
                /\ ab[2] = Len(s) \/ s[ab[2] + 1] \notin HexChars}}
    ELSE {}

\* the token of the leftmost such match, or None
FirstToken(s, min_ws) ==
    LET starts == {p \in 1..Len(s) : TokensAt(s, p, min_ws) # {}}
    IN  IF starts = {} THEN None
        ELSE LET first == CHOOSE p \in starts : \A q \in starts : p <= q
             IN  CHOOSE t \in TokensAt(s, first, min_ws) : TRUE

\* C8 (as stated): extract_guid returns the token of the first match of
\* "guid:", whitespace, lowercase-hex token, and absence when there is none.
GuidAfterWhitespace ==
    pc = "extracted" =>
        guid_result = IF ReadFails(META_PATH) THEN None
                      ELSE FirstToken(fs[META_PATH].data, 1)

\* C8 (amended): extract_guid returns the token of the first match of
\* "guid:", optional whitespace, lowercase-hex token, and absence when
\* there is none; what it returns consists of characters of [a-f0-9].
GuidAfterOptionalWhitespace ==
    pc = "extracted" =>
        /\ guid_result = IF ReadFails(META_PATH) THEN None
                         ELSE FirstToken(fs[META_PATH].data, 0)
        /\ \A j \in 1..Len(guid_result) : guid_result[j] \in HexChars

\* "guid:a7F": a match without whitespace whose token of two characters
\* ends at a character outside the class
GuidWitness ==
    /\ pc = "extracted"
    /\ ~ReadFails(META_PATH)
    /\ fs[META_PATH].data = GuidLiteral \o <<"a", "7", "F">>
    /\ guid_result = <<"a", "7">>

\* the entry the loop body makes for one asset in an empty staging directory
EntryOf(asset, guid) ==
    stage_steps(EmptyDir, asset, guid, num_steps(asset))[guid]

\* C9 (as stated): after each iteration the entry of an identifier is that
\* of the last asset processed for it alone, as if no earlier asset with
\* the same identifier had been staged.
LastAssetAlone ==
    InLoop =>
        \A g \in DOMAIN staging : staging[g] = EntryOf(assets[LastOf(g)], g)

\* C10: with a root sidecar the root's record is the first element and
\* the walk order follows it; without one the sequence is the walk order.
RootFirst ==
    Enumerated =>
        IF path_exists(ASSETS_FOLDER \o META_SUFFIX)
        THEN /\ assets # <<>>
             /\ assets[1] = [path |-> ASSETS_FOLDER,
                             meta |-> ASSETS_FOLDER \o META_SUFFIX,
                             is_folder |-> TRUE, asset |-> None]
             /\ Tail(assets) = os_walk(ASSETS_FOLDER)
        ELSE assets = os_walk(ASSETS_FOLDER)

\* the root has been staged first, a file and a folder are still to come
RootFirstWitness ==
    /\ pc = "staging"
    /\ idx = 2
    /\ path_exists(ASSETS_FOLDER \o META_SUFFIX)
    /\ DOMAIN staging = {GuidOf(1)}
    /\ \E k \in 3..Len(assets) : ~assets[k].is_folder
    /\ \E k \in 3..Len(assets) : assets[k].is_folder

====
